---- MODULE Spec2Model ----
(***************************************************************************)
(* Model of books_parser.py: the page fetcher get_soup (bounded retries    *)
(* with backoff), the list- and detail-page extractors, the crawl loop of  *)
(* scrape and the assembly of the DataFrame it returns to main.            *)
(*                                                                         *)
(* Values.  A Python dict is an insertion-ordered sequence of <<key,       *)
(* value>> pairs.  Every dict value is a tuple of strings: None is <<>>,   *)
(* a text t is <<t>>, an absolute URL is <<dir, file>>.  An href is        *)
(* <<dir, file>> where dir = "" marks a relative reference.                *)
(***************************************************************************)
EXTENDS Integers, Sequences, FiniteSets, TLC

None == <<>>

\* ------------------------------------------------------------- bounds
\* Largest --max-pages value drawn (None is drawn as well).
MaxLimit == 2
\* Largest max_retries drawn for a stand-alone get_soup call.
MaxRetries == 5

\* ---------------------------------------------------------- constants
\* get_soup's default max_retries, used by every call scrape makes.
DEFAULT_MAX_RETRIES == 3
\* backoff_sleep's ceiling in seconds.
BACKOFF_CAP == 10

\* --------------------------------------------------------------- URLs
START_URL == <<"c", "page-1">>
PAGE2_URL == <<"d", "page-2">>
ListUrls == {START_URL, PAGE2_URL}

\* The loop of scrape is not entered again once page has reached
\* PageCap(max_pages): as many pages as there are list URLs, or max_pages
\* when that is more.  Only a crawl of a cyclic catalogue gets there, and
\* one with a limit has ended by then.
PageCap(m) == IF m > Cardinality(ListUrls) THEN m ELSE Cardinality(ListUrls)

\* urllib.parse.urljoin on the modelled hrefs: a relative reference takes
\* the directory of the base, an absolute one replaces the base.
urljoin(base, href) ==
    IF href[1] = "" THEN <<base[1], href[2]>> ELSE href

\* ------------------------------------------------------------- dicts
DictKeys(d) == [i \in 1..Len(d) |-> d[i][1]]

DictHas(d, k) == \E i \in 1..Len(d) : d[i][1] = k

DictGet(d, k) == d[CHOOSE i \in 1..Len(d) : d[i][1] = k][2]

\* d[k] = v: an existing key keeps its position, a new key goes last.
DictSet(d, k, v) ==
    IF DictHas(d, k)
    THEN [i \in 1..Len(d) |-> IF d[i][1] = k THEN <<k, v>> ELSE d[i]]
    ELSE Append(d, <<k, v>>)

\* d.update(e) for a dict e: the keys of d keep their positions and take
\* the values of e, the new keys of e follow in the order of e.
DictUpdate(d, e) ==
    [i \in 1..Len(d) |->
        IF DictHas(e, d[i][1]) THEN <<d[i][1], DictGet(e, d[i][1])>> ELSE d[i]]
    \o SelectSeq(e, LAMBDA kv : ~DictHas(d, kv[1]))

\* ------------------------------------------------------ the web site
\* Product cards (article.product_pod).  title is the link's title
\* attribute ("" when absent), text its visible text; price is the text of
\* p.price_color ("" when the tag is missing); rating is the class list
\* of p.star-rating (None when the tag is missing); avail is the text of
\* p.instock.availability (None when the tag is missing).
CardRel ==
    [href |-> <<"", "a">>, title |-> "A Light", text |-> "A Li...",
     price |-> "GBP 51.77", rating |-> <<"star-rating", "Three">>,
     avail |-> <<"In  stock">>]

CardAbs ==
    [href |-> <<"c", "a">>, title |-> "", text |-> "A Light (promo)",
     price |-> "", rating |-> None, avail |-> None]

Cards == {CardRel, CardAbs}

\* A list page holds at most as many cards as there are distinct cards.
MaxCards == Cardinality(Cards)

\* The crawls checked for liveness have fewer cards per page.
LiveCards == MaxCards - 1

CardLists == UNION {[1..n -> Cards] : n \in 0..MaxCards}

\* The href of li.next a, or None.
NextHrefs == {None, <<"c", "page-1">>, <<"d", "page-2">>}

ListDocs == [cards : CardLists, next : NextHrefs]

EmptyDoc == [cards |-> <<>>, next |-> None]

\* The catalogues: a list document for each list URL.  A second page the
\* start page does not link to is never requested and is left empty.
Sites ==
    {s \in [ListUrls -> ListDocs] :
        s[START_URL].next # PAGE2_URL => s[PAGE2_URL] = EmptyDoc}

\* The product detail pages (fixed content).  crumbs are the texts of
\* ul.breadcrumb li a; desc is the text of the paragraph after
\* #product_description (None without the header); table is the th/td
\* text of each row of table.table; img is the src of the product image.
DetailDoc(u) ==
    IF u = <<"c", "a">>
    THEN [crumbs |-> <<"Home", "Books", "Poetry">>,
          desc   |-> <<"Poems">>,
          table  |-> << <<"UPC", "u1">>, <<"Price (excl. tax)", "GBP 51.77">> >>,
          img    |-> <<"", "a.jpg">>]
    ELSE [crumbs |-> <<"Home", "Books">>,
          desc   |-> None,
          table  |-> << <<"Product URL", "elsewhere">>,
                        <<"Details Error", "none">> >>,
          img    |-> None]

\* ------------------------------------------------------ field parsers
\* parse_price on the price texts of the site: the first digits[.digits]
\* token after commas are turned into periods.
parse_price(text) ==
    CASE text = "" -> None
      [] text = "GBP 51.77" -> <<"51.77">>
      [] text = "51,77" -> <<"51.77">>
      [] OTHER -> None

RatingMapping(cls) ==
    CASE cls = "One" -> <<"1">>
      [] cls = "Two" -> <<"2">>
      [] cls = "Three" -> <<"3">>
      [] cls = "Four" -> <<"4">>
      [] cls = "Five" -> <<"5">>
      [] OTHER -> None

\* parse_rating: the first class of the tag that is a rank token.
parse_rating(tag) ==
    IF tag = None THEN None
    ELSE IF \E i \in 1..Len(tag) : RatingMapping(tag[i]) # None
         THEN RatingMapping(tag[CHOOSE i \in 1..Len(tag) :
                  /\ RatingMapping(tag[i]) # None
                  /\ \A j \in 1..(i-1) : RatingMapping(tag[j]) = None])
         ELSE None

\* " ".join(text.split()) on the availability texts of the site.
NormalizeWs(text) ==
    CASE text = "In  stock" -> "In stock"
      [] OTHER -> text

\* ---------------------------------------------------- list extractor
ParseCard(card, base_url) ==
    << <<"title", <<IF card.title # "" THEN card.title ELSE card.text>> >>,
       <<"price", parse_price(card.price)>>,
       <<"rating", parse_rating(card.rating)>>,
       <<"availability",
         IF card.avail = None THEN None ELSE <<NormalizeWs(card.avail[1])>> >>,
       <<"product_url", urljoin(base_url, card.href)>> >>

\* Mutant: the cards are taken in reverse document order.
parse_list_page_reversed(doc, base_url) ==
    [i \in 1..Len(doc.cards) |->
        ParseCard(doc.cards[Len(doc.cards) + 1 - i], base_url)]

parse_list_page(doc, base_url) ==
    [i \in 1..Len(doc.cards) |-> ParseCard(doc.cards[i], base_url)]

\* Mutant: a page without li.next a yields the current URL again.
find_next_page_self(doc, current_url) ==
    IF doc.next = None THEN current_url ELSE urljoin(current_url, doc.next)

find_next_page(doc, current_url) ==
    IF doc.next = None THEN None ELSE urljoin(current_url, doc.next)

\* -------------------------------------------------- detail extractor
\* th.get_text(strip=True).lower().replace(" ", "_") on the headers of
\* the site.
KeyOf(th) ==
    CASE th = "UPC" -> "upc"
      [] th = "Price (excl. tax)" -> "price_(excl._tax)"
      [] th = "Product URL" -> "product_url"
      [] th = "Details Error" -> "details_error"
      [] OTHER -> th

\* details[key] = td text, row by row: a key stands where its first row
\* is and holds the text of its last row.
TableDict(table) ==
    LET n == Len(table)
        key(i) == KeyOf(table[i][1])
        first == SelectSeq([i \in 1..n |-> i],
                           LAMBDA i : \A j \in 1..(i-1) : key(j) # key(i))
        last(k) == CHOOSE i \in 1..n :
                       key(i) = k /\ \A j \in (i+1)..n : key(j) # k
    IN  [x \in 1..Len(first) |->
            <<key(first[x]), <<table[last(key(first[x]))][2]>> >>]

\* The body of parse_details once the page is loaded.
ParseDetailsDoc(doc, product_url) ==
    LET category == IF Len(doc.crumbs) >= 3
                    THEN <<doc.crumbs[Len(doc.crumbs)]>> ELSE None
        image_url == IF doc.img = None THEN None
                     ELSE urljoin(product_url, doc.img)
    IN  DictUpdate(<< <<"category", category>>,
                      <<"description", doc.desc>>,
                      <<"image_url", image_url>> >>,
                   TableDict(doc.table))

\* ------------------------------------------------------------- state
VARIABLES
    site,          \* the catalogue: list URL -> list document
    max_pages,     \* scrape's max_pages: 0 stands for None
    with_details,  \* scrape's with_details
    pc,            \* the program's position
    url,           \* scrape: the current list URL, or None
    page,          \* scrape: the page counter
    rows,          \* scrape: the accumulated records
    soup,          \* scrape: the document of the current list page
    items,         \* scrape: the records of the current list page
    idx,           \* scrape: position of the for loop over items
    outcome,       \* per item of the current page: "ok" or "failed"
    g_url,         \* get_soup: the URL being loaded
    ret,           \* get_soup: who called: "list", "detail" or "call"
    max_retries,   \* get_soup: max_retries
    attempt,       \* get_soup: the loop variable
    last_exc,      \* get_soup: last_exc
    last_resp,     \* the outcome of the latest session.get
    n_get,         \* session.get calls made by the current get_soup call
    sleeps,        \* durations slept by the current get_soup call
    g_soup,        \* the document get_soup returned
    error,         \* the RuntimeError in flight, or None
    df,            \* the DataFrame main holds (bound once scrape returned)
    out,           \* main: "none", "no_data" or "saved"
    calls          \* every get_soup call so far: <<who, url>>

vars == <<site, max_pages, with_details, pc, url, page, rows, soup, items,
          idx, outcome, g_url, ret, max_retries, attempt, last_exc, last_resp, n_get,
          sleeps, g_soup, error, df, out, calls>>

config == <<site, max_pages, with_details>>
scrape_locals == <<url, page, rows, soup, items, idx, outcome>>
get_soup_locals == <<g_url, ret, max_retries, attempt, last_exc, last_resp,
                     n_get, sleeps>>

\* ------------------------------------------------------------- HTTP
Statuses == {200, 404, 429, 503}

\* What one session.get can do: answer with a status, or raise a
\* transport error (ConnectionError, Timeout).
Responses ==
    [kind : {"resp"}, status : Statuses] \cup {[kind |-> "exc", status |-> 0]}

NoResponse == [kind |-> "none", status |-> 0]

\* The body served for a URL.
Body(u) == IF u \in ListUrls THEN site[u] ELSE DetailDoc(u)

\* Mutant: the duration is not capped.
BackoffDurationUncapped(a) == 2 ^ a

\* backoff_sleep's duration: min(2 ** attempt, 10).
BackoffDuration(a) == IF 2 ^ a < BACKOFF_CAP THEN 2 ^ a ELSE BACKOFF_CAP

\* Mutant: the failed attempt is not followed by a sleep.
backoff_sleep_skipped(sl, a) == sl

\* backoff_sleep(attempt), on the durations sl slept so far.
backoff_sleep(sl, a) == Append(sl, BackoffDuration(a))

\* Mutant: the loop makes one pass more.
InRangeInclusive(a, m) == a <= m

\* for attempt in range(max_retries): whether the loop has a pass for a.
InRange(a, m) == a < m

\* The status test of get_soup that leads to a retry without an exception.
RetryStatus(status) == status = 429 \/ (500 <= status /\ status < 600)

\* resp.raise_for_status(): an HTTPError for 4xx and 5xx.
RaisesForStatus(status) == 400 <= status /\ status < 600

\* The error of a failed attempt, as text: the transport error that
\* session.get raised, or the HTTPError of raise_for_status for the status.
ExcOf(r) ==
    CASE r.kind = "exc" -> "ConnectionError"
      [] r.kind = "resp" /\ r.status = 404 -> "404 Client Error"
      [] r.kind = "resp" /\ r.status = 429 -> "429 Client Error"
      [] r.kind = "resp" /\ r.status = 503 -> "503 Server Error"
      [] OTHER -> "None"

\* RuntimeError(f"Failed to load {url}: {last_exc}"), and its str().
RuntimeError(u, exc) == <<"Failed to load", u[1], u[2], exc>>

\* -------------------------------------------------------- assembly
RECURSIVE Flatten(_)
Flatten(ss) == IF ss = <<>> THEN <<>> ELSE Head(ss) \o Flatten(Tail(ss))

\* The columns of pd.DataFrame(rows): the keys of the records in the
\* order in which they are first met.
Columns(rs) ==
    Flatten([i \in 1..Len(rs) |->
        SelectSeq(DictKeys(rs[i]),
                  LAMBDA k : \A j \in 1..(i-1) : ~DictHas(rs[j], k))])

\* Mutant: keep="last".
DropDuplicatesKeepLast(rs) ==
    LET kept == SelectSeq([i \in 1..Len(rs) |-> i],
                    LAMBDA i : \A j \in (i+1)..Len(rs) :
                        DictGet(rs[j], "product_url")
                            # DictGet(rs[i], "product_url"))
    IN  [x \in 1..Len(kept) |-> rs[kept[x]]]

\* df.drop_duplicates(subset=["product_url"]): a row is dropped when an
\* earlier row has the same product_url.
DropDuplicates(rs) ==
    LET kept == SelectSeq([i \in 1..Len(rs) |-> i],
                    LAMBDA i : \A j \in 1..(i-1) :
                        DictGet(rs[j], "product_url")
                            # DictGet(rs[i], "product_url"))
    IN  [x \in 1..Len(kept) |-> rs[kept[x]]]

preferred == <<"title", "price", "rating", "availability", "category",
               "product_url", "description", "image_url">>

InSeq(x, sq) == \E i \in 1..Len(sq) : sq[i] = x

\* Mutant: the columns stay in the order of the DataFrame.
OrderColumnsAsSeen(columns) == columns

\* cols = [c for c in preferred if c in df.columns]
\*      + [c for c in df.columns if c not in preferred]
OrderColumns(columns) ==
    SelectSeq(preferred, LAMBDA c : InSeq(c, columns))
        \o SelectSeq(columns, LAMBDA c : ~InSeq(c, preferred))

Unbound == [bound |-> FALSE, columns |-> <<>>, records |-> <<>>]

\* The DataFrame scrape returns: records holds, per row, the cells that
\* are not NaN.
Assemble(rs) ==
    IF rs = <<>>
    THEN [bound |-> TRUE, columns |-> <<>>, records |-> <<>>]
    ELSE [bound |-> TRUE,
          columns |-> OrderColumns(Columns(rs)),
          records |-> DropDuplicates(rs)]

\* ----------------------------------------------------------- get_soup
\* Entering get_soup(u, session) with max_retries m on behalf of who.
CallGetSoup(who, u, m) ==
    /\ g_url' = u
    /\ ret' = who
    /\ max_retries' = m
    /\ attempt' = 0
    /\ last_exc' = "None"
    /\ last_resp' = NoResponse
    /\ n_get' = 0
    /\ sleeps' = <<>>
    /\ calls' = Append(calls, <<who, u>>)
    /\ pc' = "get_soup"

\* The frame of a finished get_soup call is gone.
DropGetSoupFrame ==
    /\ g_url' = None
    /\ ret' = "none"
    /\ max_retries' = DEFAULT_MAX_RETRIES
    /\ attempt' = 0
    /\ last_exc' = "None"
    /\ last_resp' = NoResponse
    /\ n_get' = 0
    /\ sleeps' = <<>>

\* Where a get_soup call returns to.
ReturnTo(who) ==
    CASE who = "list" -> "list_ok"
      [] who = "detail" -> "detail_ok"
      [] OTHER -> "returned"

\* One pass of the for loop of get_soup: session.get and what follows it
\* up to the next session.get, the return or the end of the loop.
GetSoupAttempt ==
    /\ pc = "get_soup"
    /\ InRange(attempt, max_retries)
    /\ \E r \in Responses :
        /\ last_resp' = r
        /\ n_get' = n_get + 1
        /\ IF r.kind = "resp" /\ RetryStatus(r.status)
           THEN /\ sleeps' = backoff_sleep(sleeps, attempt)
                /\ attempt' = attempt + 1
                /\ UNCHANGED <<last_exc, pc, g_soup>>
           ELSE IF r.kind = "exc" \/ RaisesForStatus(r.status)
           THEN /\ last_exc' = ExcOf(r)
                /\ sleeps' = backoff_sleep(sleeps, attempt)
                /\ attempt' = attempt + 1
                /\ UNCHANGED <<pc, g_soup>>
           ELSE /\ g_soup' = Body(g_url)
                /\ pc' = ReturnTo(ret)
                /\ UNCHANGED <<last_exc, sleeps, attempt>>
    /\ UNCHANGED <<config, scrape_locals, g_url, ret, max_retries, error,
                   df, out, calls>>

\* The loop of get_soup is exhausted: raise RuntimeError.
GetSoupRaise ==
    /\ pc = "get_soup"
    /\ ~InRange(attempt, max_retries)
    /\ error' = RuntimeError(g_url, last_exc)
    /\ pc' = "raised"
    /\ UNCHANGED <<config, scrape_locals, get_soup_locals, g_soup, df, out,
                   calls>>

\* ------------------------------------------------------------- scrape
\* Mutant: the limit is tested with > in place of >=.
LimitReachedLate(p, m) == m # 0 /\ p > m

\* Mutant: the loop never breaks on the limit.
LimitReachedNever(p, m) == FALSE

\* The break test of the loop: max_pages and page >= max_pages.
LimitReached(p, m) == m # 0 /\ p >= m

\* Mutant: the list fetch is inside a try block as well.
CaughtAlways(who) == TRUE

\* Whether an exception raised in get_soup called on behalf of who meets
\* an except clause in scrape: only parse_details is called inside try.
Caught(who) == who = "detail"

\* Mutant: the details are extracted whatever with_details is.
AfterListAlways(w) == "for_items"

\* if with_details: where scrape goes on once the list page is parsed.
AfterList(w) == IF w THEN "for_items" ELSE "extend"

\* Mutant: the for loop leaves out the last item.
MoreItemsButLast(i, its) == i < Len(its)

\* for it in items: whether there is an item at position i.
MoreItems(i, its) == i <= Len(its)

\* Mutant: the except clause also fills in an empty category.
FailureNoteWithCategory(it, e) ==
    DictSet(DictSet(it, "category", None), "details_error", e)

\* The except clause: it["details_error"] = str(e).
FailureNote(it, e) == DictSet(it, "details_error", e)

\* Mutant: main never takes the result for empty.
DfEmptyNever(d) == FALSE

\* df.empty
DfEmpty(d) == d.records = <<>>

\* while url: page += 1; soup = get_soup(url, session=session)
LoopHead ==
    /\ pc = "loop"
    /\ IF url = None
       THEN /\ pc' = "assemble"
            /\ UNCHANGED <<page, get_soup_locals, calls>>
       ELSE /\ page < PageCap(max_pages)
            /\ page' = page + 1
            /\ CallGetSoup("list", url, DEFAULT_MAX_RETRIES)
    /\ UNCHANGED <<config, url, rows, soup, items, idx, outcome, g_soup,
                   error, df, out>>

\* The list page is loaded: items = parse_list_page(soup, base_url=url),
\* then the test of with_details.
ListFetched ==
    /\ pc = "list_ok"
    /\ soup' = g_soup
    /\ items' = parse_list_page(g_soup, url)
    /\ idx' = 1
    /\ outcome' = <<>>
    /\ pc' = AfterList(with_details)
    /\ DropGetSoupFrame
    /\ UNCHANGED <<config, url, page, rows, g_soup, error, df, out, calls>>

\* A RuntimeError of get_soup that no except clause meets leaves scrape
\* and main: the process ends with the traceback.
ListFetchFailed ==
    /\ pc = "raised"
    /\ ret # "call"
    /\ ~Caught(ret)
    /\ pc' = "aborted"
    /\ DropGetSoupFrame
    /\ UNCHANGED <<config, scrape_locals, g_soup, error, df, out, calls>>

\* for it in items: extra = parse_details(it["product_url"], ...), which
\* begins with get_soup(product_url); after the last item the loop ends.
ForItems ==
    /\ pc = "for_items"
    /\ IF MoreItems(idx, items)
       THEN CallGetSoup("detail", DictGet(items[idx], "product_url"),
                        DEFAULT_MAX_RETRIES)
       ELSE /\ pc' = "extend"
            /\ UNCHANGED <<get_soup_locals, calls>>
    /\ UNCHANGED <<config, scrape_locals, g_soup, error, df, out>>

\* The detail page is loaded: the rest of parse_details and
\* it.update(extra).
DetailFetched ==
    /\ pc = "detail_ok"
    /\ items' = [items EXCEPT
                   ![idx] = DictUpdate(@, ParseDetailsDoc(g_soup, g_url))]
    /\ idx' = idx + 1
    /\ outcome' = Append(outcome, "ok")
    /\ pc' = "for_items"
    /\ DropGetSoupFrame
    /\ UNCHANGED <<config, url, page, rows, soup, g_soup, error, df, out,
                   calls>>

\* except Exception as e: it["details_error"] = str(e)
DetailFailed ==
    /\ pc = "raised"
    /\ Caught(ret)
    /\ items' = [items EXCEPT ![idx] = FailureNote(@, error)]
    /\ error' = None
    /\ idx' = idx + 1
    /\ outcome' = Append(outcome, "failed")
    /\ pc' = "for_items"
    /\ DropGetSoupFrame
    /\ UNCHANGED <<config, url, page, rows, soup, g_soup, df, out, calls>>

\* rows.extend(items); the break test; url = find_next_page(soup, url)
Extend ==
    /\ pc = "extend"
    /\ rows' = rows \o items
    /\ IF LimitReached(page, max_pages)
       THEN /\ pc' = "assemble"
            /\ url' = url
       ELSE /\ pc' = "loop"
            /\ url' = find_next_page(soup, url)
    /\ UNCHANGED <<config, page, soup, items, idx, outcome, get_soup_locals,
                   g_soup, error, df, out, calls>>

\* The lines of scrape after the loop; main binds the result to df.
AssembleResult ==
    /\ pc = "assemble"
    /\ df' = Assemble(rows)
    /\ pc' = "main"
    /\ UNCHANGED <<config, scrape_locals, get_soup_locals, g_soup, error,
                   out, calls>>

\* main after scrape: "No data collected." or the export.
MainExport ==
    /\ pc = "main"
    /\ out' = IF DfEmpty(df) THEN "no_data" ELSE "saved"
    /\ pc' = "done"
    /\ UNCHANGED <<config, scrape_locals, get_soup_locals, g_soup, error,
                   df, calls>>

\* ------------------------------------------------------ specifications
InitCommon ==
    /\ url = START_URL
    /\ page = 0
    /\ rows = <<>>
    /\ soup = EmptyDoc
    /\ items = <<>>
    /\ idx = 0
    /\ outcome = <<>>
    /\ attempt = 0
    /\ last_exc = "None"
    /\ last_resp = NoResponse
    /\ n_get = 0
    /\ sleeps = <<>>
    /\ g_soup = EmptyDoc
    /\ error = None
    /\ df = Unbound
    /\ out = "none"

\* main calls scrape(args.start_url, max_pages, args.details).  A limit
\* above the number of list URLs is reached only by going round a cyclic
\* catalogue: those crawls are taken over the catalogues with at most
\* LiveCards cards per page.
Init ==
    /\ site \in Sites
    /\ max_pages \in 0..MaxLimit
    /\ with_details \in BOOLEAN
    /\ max_pages > Cardinality(ListUrls)
        => \A u \in ListUrls : Len(site[u].cards) <= LiveCards
    /\ pc = "loop"
    /\ g_url = None
    /\ ret = "none"
    /\ max_retries = DEFAULT_MAX_RETRIES
    /\ calls = <<>>
    /\ InitCommon

Next ==
    \/ LoopHead
    \/ GetSoupAttempt
    \/ GetSoupRaise
    \/ ListFetched
    \/ ListFetchFailed
    \/ ForItems
    \/ DetailFetched
    \/ DetailFailed
    \/ Extend
    \/ AssembleResult
    \/ MainExport

Spec == Init /\ [][Next]_vars

\* The crawls of the catalogues with at most LiveCards cards per page.
InitLive ==
    /\ Init
    /\ \A u \in ListUrls : Len(site[u].cards) <= LiveCards

\* The program runs on while it can: every session.get returns.
FairSpec == InitLive /\ [][Next]_vars /\ WF_vars(Next)

\* One get_soup call on its own, for any max_retries.
InitFetch ==
    /\ site = [u \in ListUrls |-> [cards |-> <<CardRel>>, next |-> None]]
    /\ max_pages = 0
    /\ with_details = FALSE
    /\ pc = "get_soup"
    /\ g_url \in ListUrls \cup {<<"c", "a">>}
    /\ ret = "call"
    /\ max_retries \in 1..MaxRetries
    /\ calls = <<<<"call", g_url>>>>
    /\ InitCommon

NextFetch ==
    \/ GetSoupAttempt
    \/ GetSoupRaise

SpecFetch == InitFetch /\ [][NextFetch]_vars

Terminated == pc \in {"done", "aborted"}

\* ------------------------------------------------------------ claims
\* The number of get_soup calls scrape has made for list pages.
NumListCalls == Cardinality({i \in 1..Len(calls) : calls[i][1] = "list"})

\* C1: with max_pages = N > 0 the crawl starts the fetch of at most N list
\* pages (get_soup calls on a list URL, not HTTP attempts), also when the
\* N-th page has a next link.
C1_PageLimitRespected == max_pages # 0 => NumListCalls <= max_pages

\* C1 witness: a finished crawl that fetched exactly max_pages list pages,
\* the last of which has a next link.
C1_Witness ==
    /\ pc = "done"
    /\ max_pages # 0
    /\ NumListCalls = max_pages
    /\ soup.next # None
    /\ find_next_page(soup, url) # None

NoNextAtStart == site[START_URL].next = None

\* C2: when the start page has no next link, at most one list page is ever
\* fetched, and once it is loaded the crawl ends, having fetched one list
\* page, whatever max_pages and with_details are.
C2_SinglePageTerminates ==
    /\ [](NoNextAtStart => NumListCalls <= 1)
    /\ (NoNextAtStart /\ pc = "list_ok")
           ~> (pc = "done" /\ NumListCalls = 1 /\ page = 1)

\* C2 witness: such a crawl, finished, with a limit above 1 and details on.
C2_Witness ==
    /\ NoNextAtStart
    /\ pc = "done"
    /\ NumListCalls = 1
    /\ max_pages = MaxLimit
    /\ with_details
    /\ Len(rows) > 0

\* C3: with details on, when the extraction fails for item i of a page with
\* k items, all k items are appended; each failed item carries
\* details_error, every other item carries none and holds its list fields
\* updated by its own detail extraction.
C3_DetailFailureIsolated ==
    /\ (pc = "extend" /\ with_details
            /\ \E i \in 1..Len(outcome) : outcome[i] = "failed")
        => /\ Len(items) = Len(soup.cards)
           /\ Len(outcome) = Len(items)
           /\ \A j \in 1..Len(items) :
                LET card == ParseCard(soup.cards[j], url)
                    pu == DictGet(card, "product_url")
                IN  IF outcome[j] = "failed"
                    THEN DictHas(items[j], "details_error")
                    ELSE /\ ~DictHas(items[j], "details_error")
                         /\ items[j] = DictUpdate(card,
                                ParseDetailsDoc(DetailDoc(pu), pu))
    /\ (pc \in {"loop", "assemble"} /\ page > 0)
        => /\ Len(rows) >= Len(items)
           /\ SubSeq(rows, Len(rows) - Len(items) + 1, Len(rows)) = items

\* Whether a record carries the details_error of a failed extraction.
HasFailureNote(r) ==
    /\ DictHas(r, "details_error")
    /\ DictGet(r, "details_error")[1] = "Failed to load"

\* C4: a RuntimeError of get_soup on a list page ends the crawl at once
\* (no handler, no later fetch, nothing returned); one on a detail page is
\* recorded on the item at hand only, and the for loop goes on with the
\* next item, whose detail page is fetched next.
C4_Step ==
    /\ (pc = "raised" /\ ret = "list")
        => (pc' = "aborted" /\ calls' = calls /\ df' = df /\ out' = out)
    /\ pc = "aborted" => UNCHANGED vars
    /\ (pc = "raised" /\ ret = "detail")
        => /\ pc' = "for_items"
           /\ idx' = idx + 1
           /\ calls' = calls
           /\ <<url, page, rows>>' = <<url, page, rows>>
           /\ Len(items') = Len(items)
           /\ DictHas(items'[idx], "details_error")
           /\ DictGet(items'[idx], "details_error") = error
           /\ \A j \in 1..Len(items) : j # idx => items'[j] = items[j]
    /\ (pc = "for_items" /\ idx <= Len(items))
        => /\ pc' = "get_soup"
           /\ calls' = Append(calls,
                  <<"detail", DictGet(items[idx], "product_url")>>)

C4_FetchFailures == [][C4_Step]_vars

\* C4 witness: a crawl that recorded a detail failure on a record of one
\* page and was then ended by the failure of the next list fetch.
C4_Witness ==
    /\ pc = "aborted"
    /\ NumListCalls = 2
    /\ \E i \in 1..Len(rows) : HasFailureNote(rows[i])

KeyAt(rs, i) == DictGet(rs[i], "product_url")

\* The positions of rows that hold the first record of their product_url.
FirstPositions == {i \in 1..Len(rows) : \A j \in 1..(i-1) : KeyAt(rows, j) # KeyAt(rows, i)}

\* C5: the assembled records have pairwise distinct product_url values;
\* they are the first records of their product_url in rows, all of them,
\* in the order of rows.
C5_DedupFirstSeen ==
    (df.bound /\ rows # <<>>)
        => LET R == df.records
           IN  /\ \A a, b \in 1..Len(R) : a # b => KeyAt(R, a) # KeyAt(R, b)
               /\ Len(R) = Cardinality(FirstPositions)
               /\ \A k \in 1..Len(R) :
                    R[k] = rows[CHOOSE i \in FirstPositions :
                        Cardinality({j \in FirstPositions : j <= i}) = k]

\* C5 witness: an assembled result where two different records of two
\* list pages shared a product_url and one was dropped.
C5_Witness ==
    /\ pc = "done"
    /\ NumListCalls = 2
    /\ Len(df.records) < Len(rows)
    /\ \E i, j \in 1..Len(rows) :
        /\ i <= Len(site[START_URL].cards)
        /\ j > Len(site[START_URL].cards)
        /\ KeyAt(rows, i) = KeyAt(rows, j)
        /\ rows[i] # rows[j]

ClientError(r) ==
    r.kind = "resp" /\ 400 <= r.status /\ r.status < 500 /\ r.status # 429

\* C6: once an attempt has received a 4xx status other than 429, get_soup
\* has raised: it slept no backoff for that attempt and makes no other.
C6_ClientErrorFailsFast ==
    ClientError(last_resp) => (pc = "raised" /\ Len(sleeps) = n_get - 1)

\* C7: the error raised after max_retries failed attempts carries the
\* error of the last failed attempt.
C7_CarriesLastError ==
    (pc = "raised" /\ n_get = max_retries) => error[4] = ExcOf(last_resp)

\* C8: when a list fetch fails after earlier pages were processed, the
\* records accumulated so far are in the hands of the caller.
C8_PartialResultsKept ==
    (pc = "aborted" /\ rows # <<>>)
        => /\ df.bound
           /\ \A i \in 1..Len(rows) :
                \E j \in 1..Len(df.records) : df.records[j] = rows[i]

RECURSIVE ChainEnds(_, _)
\* Whether the next links from u reach a page without one in n steps.
ChainEnds(u, n) ==
    IF site[u].next = None THEN TRUE
    ELSE IF n = 0 THEN FALSE
    ELSE ChainEnds(find_next_page(site[u], u), n - 1)

ChainEndsFromStart == ChainEnds(START_URL, Cardinality(ListUrls))

\* C9: the crawl terminates (main returns, or the crawl is ended by a
\* fetch error) when the chain of next links ends or max_pages is set.
C9_CrawlTerminates ==
    (ChainEndsFromStart \/ max_pages # 0) => <>Terminated

\* C9 witness: a crawl of a cyclic catalogue ended by its page limit.
C9_Witness ==
    /\ pc = "done"
    /\ ~ChainEndsFromStart
    /\ max_pages # 0
    /\ Len(rows) > 0

RECURSIVE Chain(_)
\* The first n list URLs along the next links (None past the end).
Chain(n) ==
    IF n = 1 THEN <<START_URL>>
    ELSE LET c == Chain(n - 1)
             u == c[n - 1]
         IN  Append(c, IF u = None THEN None ELSE find_next_page(site[u], u))

\* The catalogue is linear with at least n pages.
LinearAtLeast(n) ==
    LET c == Chain(n)
    IN  /\ \A k \in 1..n : c[k] # None
        /\ \A a, b \in 1..n : a # b => c[a] # c[b]

\* The records of the first n list pages, page by page, in card order.
FirstPagesItems(n) ==
    LET c == Chain(n)
    IN  Flatten([k \in 1..n |->
            [i \in 1..Len(site[c[k]].cards) |->
                ParseCard(site[c[k]].cards[i], c[k])]])

ListPart(r) ==
    <<DictGet(r, "title"), DictGet(r, "price"), DictGet(r, "rating"),
      DictGet(r, "availability")>>

\* C10: with max_pages = N on a linear catalogue of at least N pages, the
\* rows a crawl ends with are the records of the first N pages in page and
\* card order: the same records without details, and with details the
\* same list fields position by position.
C10_FirstPagesInOrder ==
    (pc \in {"assemble", "main", "done"} /\ max_pages # 0
            /\ LinearAtLeast(max_pages))
        => LET E == FirstPagesItems(max_pages)
           IN  /\ Len(rows) = Len(E)
               /\ \A j \in 1..Len(E) : ListPart(rows[j]) = ListPart(E[j])
               /\ ~with_details => rows = E

\* C10 witness: max_pages = 1 on a two-page catalogue whose pages both
\* have cards: the rows are the two different records of the first page.
C10_Witness ==
    /\ pc = "done"
    /\ max_pages = 1
    /\ find_next_page(site[START_URL], START_URL) = PAGE2_URL
    /\ site[PAGE2_URL].cards # <<>>
    /\ Len(rows) = 2
    /\ ListPart(rows[1]) # ListPart(rows[2])

\* C11: a crawl that collected no record returns an empty result, and main
\* then reports "no data" and ends without an export and without an
\* exception; an export is written only for a result with records.
C11_EmptyResultNoExport ==
    /\ (pc \in {"main", "done"} /\ rows = <<>>)
        => (df.bound /\ df.records = <<>> /\ df.columns = <<>>)
    /\ (pc = "done" /\ rows = <<>>) => out = "no_data"
    /\ out = "saved" => (rows # <<>> /\ df.records # <<>>)
    /\ pc = "done" => error = None

\* C11 witness: a finished crawl of a listing with no cards and no next
\* link, which main reported as "no data".
C11_Witness ==
    /\ pc = "done"
    /\ site[START_URL].cards = <<>>
    /\ site[START_URL].next = None
    /\ NumListCalls = 1
    /\ rows = <<>>
    /\ out = "no_data"

\* C12: the product_url of every record about to be appended to rows is
\* the card's link resolved against the list page, also after the detail
\* extraction has merged its fields, whatever keys the attribute table has.
C12_ProductUrlResolved ==
    pc = "extend"
        => /\ Len(items) = Len(soup.cards)
           /\ \A j \in 1..Len(items) :
                DictGet(items[j], "product_url")
                    = urljoin(url, soup.cards[j].href)

KeySet(r) == {r[i][1] : i \in 1..Len(r)}

ListFields == {"title", "price", "rating", "availability", "product_url"}

\* C13: with with_details false every get_soup call is for a list URL
\* and every record (at hand, accumulated, assembled) has the five list
\* fields and no other: no details_error, no detail field.
C13_NoDetailsWithoutFlag ==
    ~with_details
        => /\ \A i \in 1..Len(calls) :
                calls[i][1] = "list" /\ calls[i][2] \in ListUrls
           /\ \A i \in 1..Len(items) : KeySet(items[i]) = ListFields
           /\ \A i \in 1..Len(rows) : KeySet(rows[i]) = ListFields
           /\ \A i \in 1..Len(df.records) : KeySet(df.records[i]) = ListFields
           /\ \A i \in 1..Len(df.columns) : df.columns[i] \in ListFields

\* C13 witness: a finished crawl without details of two list pages that
\* returned at least two records.
C13_Witness ==
    /\ pc = "done"
    /\ ~with_details
    /\ NumListCalls = 2
    /\ Len(calls) = 2
    /\ Len(df.records) >= 2

\* The position of x in the sequence sq.
IndexIn(x, sq) == CHOOSE i \in 1..Len(sq) : sq[i] = x

\* The first row that has the key k.
FirstRow(k) == CHOOSE i \in 1..Len(rows) :
    /\ DictHas(rows[i], k)
    /\ \A j \in 1..(i-1) : ~DictHas(rows[j], k)

\* Key a is seen before key b when the rows are read in order.
SeenBefore(a, b) ==
    \/ FirstRow(a) < FirstRow(b)
    \/ /\ FirstRow(a) = FirstRow(b)
       /\ IndexIn(a, DictKeys(rows[FirstRow(a)]))
            < IndexIn(b, DictKeys(rows[FirstRow(a)]))

\* C14: the columns of a non-empty result are the keys of the rows, each
\* once: first those of the preferred list in the order of that list,
\* then the others in the order in which the rows first show them.
C14_ColumnOrder ==
    (df.bound /\ rows # <<>>)
        => LET C == df.columns
           IN  /\ \A a, b \in 1..Len(C) : a # b => C[a] # C[b]
               /\ {C[a] : a \in 1..Len(C)}
                    = UNION {KeySet(rows[i]) : i \in 1..Len(rows)}
               /\ \A a, b \in 1..Len(C) : a < b =>
                    IF InSeq(C[b], preferred)
                    THEN /\ InSeq(C[a], preferred)
                         /\ IndexIn(C[a], preferred) < IndexIn(C[b], preferred)
                    ELSE InSeq(C[a], preferred) \/ SeenBefore(C[a], C[b])

\* C14 witness: a result with several records whose columns are some of
\* the preferred ones followed by at least two others, and not in the
\* order in which the rows show them.
C14_Witness ==
    /\ pc = "done"
    /\ Len(df.records) >= 2
    /\ df.columns # Columns(rows)
    /\ Cardinality({a \in 1..Len(df.columns) :
                        ~InSeq(df.columns[a], preferred)}) >= 2
    /\ InSeq("details_error", df.columns)

\* Whether a session.get outcome is a failed attempt.
FailedAttempt(r) ==
    r.kind = "exc" \/ RetryStatus(r.status) \/ RaisesForStatus(r.status)

\* C15: a get_soup call makes at most max_retries attempts; it returns at
\* the first attempt that is answered with a status that is neither 429,
\* 5xx nor an error, and while it goes on every attempt so far failed.
C15_BoundedAttempts ==
    /\ n_get <= max_retries
    /\ pc = "returned"
        => /\ last_resp.kind = "resp"
           /\ ~FailedAttempt(last_resp)
           /\ g_soup = Body(g_url)
           /\ attempt = n_get - 1
           /\ Len(sleeps) = n_get - 1
    /\ (pc = "get_soup" /\ n_get > 0)
        => (FailedAttempt(last_resp) /\ attempt = n_get)

\* C15 witness: a call with the default max_retries that returned the
\* document at its last attempt.
C15_Witness ==
    /\ pc = "returned"
    /\ max_retries = DEFAULT_MAX_RETRIES
    /\ n_get = max_retries

\* 1, 2, 4, 8 and then 10.
BackoffTable(a) ==
    CASE a = 0 -> 1
      [] a = 1 -> 2
      [] a = 2 -> 4
      [] a = 3 -> 8
      [] OTHER -> 10

\* C16: the i-th sleep of a get_soup call, after the failed attempt
\* i - 1, lasts 1, 2, 4, 8 and then 10 seconds, whatever made the attempt
\* fail.
C16_BackoffDurations ==
    \A i \in 1..Len(sleeps) : sleeps[i] = BackoffTable(i - 1)

\* C16 witness: a call that slept after attempt 4, having met a transport
\* error and, last, a 503.
C16_Witness ==
    /\ Len(sleeps) >= 5
    /\ sleeps[5] = BACKOFF_CAP
    /\ last_exc = "ConnectionError"
    /\ last_resp.kind = "resp" /\ last_resp.status = 503

\* The last list call among the first i calls.
LastListCall(i) == CHOOSE p \in 1..i :
    /\ calls[p][1] = "list"
    /\ \A q \in (p+1)..i : calls[q][1] # "list"

\* C17: the get_soup calls are made one at a time: the first is the list
\* fetch of the start URL; with details on, the list fetch of a page is
\* followed by the detail fetches of its cards in document order, all of
\* them, before the next list fetch; a call is made only when no other
\* is under way.
C17_SequentialOrdered ==
    /\ calls # <<>> => calls[1] = <<"list", START_URL>>
    /\ pc \in {"get_soup", "raised", "list_ok", "detail_ok"}
        => (calls # <<>> /\ calls[Len(calls)] = <<ret, g_url>>)
    /\ pc \notin {"get_soup", "raised", "list_ok", "detail_ok"}
        => (ret = "none" /\ g_url = None)
    /\ \A i \in 1..Len(calls) :
        IF calls[i][1] = "detail"
        THEN /\ with_details
             /\ LET p == LastListCall(i)
                    u == calls[p][2]
                IN  /\ i - p <= Len(site[u].cards)
                    /\ calls[i][2] = urljoin(u, site[u].cards[i - p].href)
        ELSE i > 1 =>
                LET p == LastListCall(i - 1)
                IN  (i - 1) - p = IF with_details
                                  THEN Len(site[calls[p][2]].cards) ELSE 0

\* C17 witness: a finished crawl with details of two list pages, the
\* first with one card, the second with two cards that lead to different
\* detail pages.
C17_Witness ==
    /\ pc = "done"
    /\ with_details
    /\ NumListCalls = 2
    /\ Len(site[START_URL].cards) = 1
    /\ Len(site[PAGE2_URL].cards) = 2
    /\ Len(calls) = 5
    /\ calls[3] = <<"list", PAGE2_URL>>
    /\ calls[4] # calls[5]

\* C18: an item whose detail extraction failed holds the fields of its
\* card, unchanged, followed by details_error with the error, and no
\* field else.
C18_FailedMergeAllOrNothing ==
    (pc \in {"for_items", "extend"}
        \/ (pc \in {"get_soup", "raised", "detail_ok"} /\ ret = "detail"))
        => \A j \in 1..Len(outcome) :
            outcome[j] = "failed"
                => LET card == ParseCard(soup.cards[j], url)
                       n == Len(card)
                   IN  /\ Len(items[j]) = n + 1
                       /\ SubSeq(items[j], 1, n) = card
                       /\ items[j][n + 1][1] = "details_error"
                       /\ items[j][n + 1][2]
                            = RuntimeError(DictGet(card, "product_url"),
                                           items[j][n + 1][2][4])
                       /\ KeySet(items[j])
                            = ListFields \cup {"details_error"}

\* C18 witness: a page of two items where the extraction failed for the
\* first and succeeded for the second.
C18_Witness ==
    /\ pc = "extend"
    /\ Len(outcome) = 2
    /\ outcome[1] = "failed"
    /\ outcome[2] = "ok"
    /\ Len(items[2]) > Len(items[1])

\* C19: every failed attempt of a get_soup call is followed by a sleep,
\* the last one too: the error is raised after exactly max_retries
\* attempts and max_retries sleeps.
C19_SleepAfterEveryFailure ==
    /\ pc = "get_soup" => Len(sleeps) = n_get
    /\ pc = "raised"
        => /\ n_get = max_retries
           /\ Len(sleeps) = max_retries
           /\ error # None

\* C19 witness: a call with the largest max_retries that raised.
C19_Witness ==
    /\ pc = "raised"
    /\ max_retries = MaxRetries
    /\ Len(sleeps) = MaxRetries

====
